---- MODULE Spec2Model ----
(***************************************************************************)
(* Model of the feedforward-ANN repository:                                *)
(*   - src/fann/fann.py        : get_ll, _get_loss, get_loss               *)
(*   - src/_demo/fann/util.py  : homebrewify (import of a reference model) *)
(* Real numbers are fixed-point integers with Scale units per 1.0.         *)
(***************************************************************************)
EXTENDS Integers, Naturals, Sequences, FiniteSets, TLC

\* fixed-point resolution of the real-number model (three decimal digits)
Scale == 10 ^ 3

\* numpy's float infinity: np.log(0) is -Inf, -(-Inf) is +Inf
Inf == 1000000000
NegInf == 0 - Inf
PosInf == Inf

\* ---- bounds of the model -------------------------------------------------
\* number of observations (rows) of p_hat
MaxObs == 2
\* maximal number of entries of the label vector y
MaxLen == 3
\* maximal number of hidden layers of a reference model
MaxDepth == 2
\* maximal width of a hidden layer
MaxWidth == 2
\* reference models are drawn from the family RefNN(0) .. RefNN(MaxSeed)
MaxSeed == 4
\* the configured category count ranges over 1 .. MaxCategories
MaxCategories == 3

\* ---- program constants ---------------------------------------------------
NUM_FEATURES == 2
\* the reserved bias column key, distinct from every neuron index
BIAS_INDEX == -1
\* an empty cell of a freshly constructed Layer (pandas fills it with NaN)
NaN == 999

VARIABLES
    \* --- get_loss ---
    p_hat,      \* probability table: observation -> category -> probability
    y,          \* label vector: sequence of [n |-> observation key, label |-> category]
    p_y,        \* the dict built by get_loss: observation key -> selected probability
    ll,         \* result of get_ll
    loss,       \* result of get_loss
    pcL,        \* position inside get_loss
    \* --- homebrewify and its consumers ---
    NUM_CATEGORIES,       \* module-level configuration of util.py
    layer_width,          \* argument of homebrewify
    ref_nn,               \* argument of homebrewify: [coefs_, intercepts_]
    pc,                   \* position inside homebrewify / the comparison run
    l,                    \* loop index of the hidden-layer loop
    prev_neuron_indices,  \* list of the previous layer's neuron indices
    hidden_layers,        \* list of hidden layers built so far
    output_layer,         \* the output layer, once built
    nn,                   \* the returned network (a list of layers)
    error,                \* the exception raised, if any
    reads,                \* indices of the reference layers whose weights were read
    x,                    \* the input observation of the comparison run
    out,                  \* homebrew output activations before squashing
    p,                    \* homebrew output after squashing
    y_hat,                \* homebrew predicted category
    ref_act,              \* reference model's single output activation
    ref_pred              \* reference model's predicted category

lossVars == <<p_hat, y, p_y, ll, loss, pcL>>
nnVars == <<NUM_CATEGORIES, layer_width, ref_nn, pc, l, prev_neuron_indices,
            hidden_layers, output_layer, nn, error, reads,
            x, out, p, y_hat, ref_act, ref_pred>>
vars == <<lossVars, nnVars>>

\* ---- helpers -------------------------------------------------------------
\* Python's list(range(n)) as a 1-indexed sequence of the values 0 .. n-1
lrange(n) == [k \in 1..n |-> k - 1]

SeqToSet(s) == {s[k] : k \in DOMAIN s}

Abs(a) == IF a < 0 THEN 0 - a ELSE a

EmptyDict == [n \in {} |-> 0]

\* ==========================================================================
\* LOSS  (src/fann/fann.py)
\* ==========================================================================

Obs == 0 .. (MaxObs - 1)
Cat == 0 .. 1
\* probabilities on the grid 0, 1/4, 1/2, 3/4, 1
Probs == {k * (Scale \div 4) : k \in 0..4}

\* np.log on the probability grid, in fixed point; np.log(0) = -Inf
Ln(q) ==
    CASE q = 0 -> NegInf
      [] q = Scale \div 4 -> 0 - 1386
      [] q = Scale \div 2 -> 0 - 693
      [] q = 3 * (Scale \div 4) -> 0 - 288
      [] q = Scale -> 0

\* float addition with infinities (the operands here are never +Inf and -Inf together)
FAdd(a, b) ==
    IF a = NegInf \/ b = NegInf THEN NegInf
    ELSE IF a = PosInf \/ b = PosInf THEN PosInf
    ELSE a + b

FNeg(a) == 0 - a

RECURSIVE SumLn(_, _)
SumLn(d, keys) ==
    IF keys = {} THEN 0
    ELSE LET n == CHOOSE m \in keys : TRUE
         IN FAdd(Ln(d[n]), SumLn(d, keys \ {n}))

\* get_ll: np.log(p).sum()
get_ll(q) == SumLn(q, DOMAIN q)

\* a variant of _get_loss that forgets the negation
get_loss_unnegated(q) == get_ll(q)

\* _get_loss: the negation of the log likelihood
_get_loss(q) == FNeg(get_ll(q))

\* dict insertion d[n] = v: a later value for the same key replaces the earlier
Put(d, n, v) == [m \in (DOMAIN d) \cup {n} |-> IF m = n THEN v ELSE d[m]]

\* a variant of the selection that reads the other category's column
RECURSIVE SelectOther(_, _, _)
SelectOther(ph, yy, k) ==
    IF k = 0 THEN EmptyDict
    ELSE Put(SelectOther(ph, yy, k - 1), yy[k].n, ph[yy[k].n][1 - yy[k].label])

\* {n: p_hat.loc[n, label] for n, label in y.items()}, over the first k items
RECURSIVE Select(_, _, _)
Select(ph, yy, k) ==
    IF k = 0 THEN EmptyDict
    ELSE Put(Select(ph, yy, k - 1), yy[k].n, ph[yy[k].n][yy[k].label])

\* get_loss: select the true-label entries, then _get_loss
get_loss(ph, yy) == _get_loss(Select(ph, yy, Len(yy)))

IsPmf(row) == row[0] + row[1] = Scale

PHats == {t \in [Obs -> [Cat -> Probs]] : \A n \in Obs : IsPmf(t[n])}

Items == [n : Obs, label : Cat]

Ys == UNION {[1..k -> Items] : k \in 0..MaxLen}

InitLossIdle ==
    /\ p_hat = [n \in Obs |-> [c \in Cat |-> Scale \div 2]]
    /\ y = <<>>
    /\ p_y = EmptyDict
    /\ ll = 0
    /\ loss = 0
    /\ pcL = "idle"

InitLoss ==
    /\ p_hat \in PHats
    /\ y \in Ys
    /\ p_y = EmptyDict
    /\ ll = 0
    /\ loss = 0
    /\ pcL = "select"

\* get_loss line 100: pick out the entry for the correct label
SelectTrueLabel ==
    /\ pcL = "select"
    /\ p_y' = Select(p_hat, y, Len(y))
    /\ pcL' = "get_ll"
    /\ UNCHANGED <<p_hat, y, ll, loss, nnVars>>

\* get_ll line 56
GetLL ==
    /\ pcL = "get_ll"
    /\ ll' = get_ll(p_y)
    /\ pcL' = "negate"
    /\ UNCHANGED <<p_hat, y, p_y, loss, nnVars>>

\* _get_loss line 79 and the return of get_loss line 101
GetLoss ==
    /\ pcL = "negate"
    /\ loss' = _get_loss(p_y)
    /\ pcL' = "done"
    /\ UNCHANGED <<p_hat, y, p_y, ll, nnVars>>

InitNNIdle ==
    /\ NUM_CATEGORIES = 2
    /\ layer_width = <<>>
    /\ ref_nn = [coefs_ |-> <<>>, intercepts_ |-> <<>>]
    /\ pc = "idle"
    /\ l = 0
    /\ prev_neuron_indices = <<>>
    /\ hidden_layers = <<>>
    /\ output_layer = EmptyDict
    /\ nn = <<>>
    /\ error = "none"
    /\ reads = {}
    /\ x = <<>>
    /\ out = <<>>
    /\ p = <<>>
    /\ y_hat = 0
    /\ ref_act = 0
    /\ ref_pred = 0


\* ---- properties of get_loss ----------------------------------------------

KeysDistinct(yy) == \A i, j \in DOMAIN yy : i # j => yy[i].n # yy[j].n

\* the probability the table assigns to the true label of the k-th entry of y
TrueLabelProb(k) == p_hat[y[k].n][y[k].label]

\* the sum of ln(p_hat[n, y[n]]) over the first k entries of y, one term each
RECURSIVE SumTrueLn(_, _, _)
SumTrueLn(ph, yy, k) ==
    IF k = 0 THEN 0
    ELSE FAdd(Ln(ph[yy[k].n][yy[k].label]), SumTrueLn(ph, yy, k - 1))

IsTrueLabelCell(n, c) == \E k \in DOMAIN y : y[k].n = n /\ y[k].label = c

\* C1: with distinct observation keys, get_loss(p_hat, y) is the negative of the
\* sum over the entries of y of ln(p_hat[n, y[n]]), and changing any entry of
\* p_hat that is not a true-label entry leaves the loss unchanged.
C1_LossIsNegSumOfTrueLabelLogs ==
    (pcL = "done" /\ KeysDistinct(y)) =>
        /\ loss = FNeg(SumTrueLn(p_hat, y, Len(y)))
        /\ \A n \in Obs, c \in Cat, q \in Probs :
               ~IsTrueLabelCell(n, c) =>
                   get_loss([p_hat EXCEPT ![n][c] = q], y) = loss

C1_Witness ==
    /\ pcL = "done"
    /\ KeysDistinct(y)
    /\ Len(y) = 2
    /\ y[1].label # y[2].label
    /\ loss > 0
    /\ loss < PosInf

\* C2: when every true-label probability is in (0,1], the loss is non-negative,
\* and it is 0 exactly when every true-label probability is 1.
C2_LossNonNegativeZeroIffCertain ==
    (pcL = "done" /\ \A k \in DOMAIN y : TrueLabelProb(k) > 0) =>
        /\ loss >= 0
        /\ (loss = 0 <=> \A k \in DOMAIN y : TrueLabelProb(k) = Scale)

C2_Witness ==
    /\ pcL = "done"
    /\ Len(y) >= 2
    /\ \A k \in DOMAIN y : TrueLabelProb(k) > 0
    /\ \E k \in DOMAIN y : TrueLabelProb(k) < Scale
    /\ \E k \in DOMAIN y : TrueLabelProb(k) = Scale
    /\ loss > 0

\* C3: when some entry's true-label probability is exactly 0, get_ll returns
\* -Inf and get_loss returns +Inf, as ordinary values and with no error.
C3_ZeroProbabilityGivesInfiniteLoss ==
    (pcL = "done" /\ \E k \in DOMAIN y : TrueLabelProb(k) = 0) =>
        (ll = NegInf /\ loss = PosInf)

\* C3 restricted to label vectors with distinct observation keys
C3_HoldsForDistinctKeys ==
    (pcL = "done" /\ KeysDistinct(y) /\ \E k \in DOMAIN y : TrueLabelProb(k) = 0) =>
        (ll = NegInf /\ loss = PosInf)

\* C10: the loss has one log-probability term per entry of y, also when two
\* entries of y carry the same observation key.
C10_OneTermPerEntry ==
    (pcL = "done") =>
        /\ Cardinality(DOMAIN p_y) = Len(y)
        /\ loss = FNeg(SumTrueLn(p_hat, y, Len(y)))

\* ==========================================================================
\* NUMERICS of the engine: logistic activation and softmax squashing
\* ==========================================================================

\* e^(v/Scale) * Scale for v >= 0: the Taylor series, summed until a term vanishes
RECURSIVE ExpSeries(_, _, _)
ExpSeries(v, k, term) ==
    IF term = 0 THEN 0
    ELSE term + ExpSeries(v, k + 1, (term * v) \div ((k + 1) * Scale))

Exp(v) == ExpSeries(v, 0, Scale)

\* e^(-v/Scale) * Scale for v >= 0, rounded; below the resolution it is 0
ExpNeg(v) ==
    IF v > 7 * Scale THEN 0
    ELSE (2 * Scale * Scale + Exp(v)) \div (2 * Exp(v))

\* the logistic f(z) = 1 / (1 + e^-z), rounded to the resolution; f(-z) = 1 - f(z)
LogisticPos(z) == (2 * Scale * Scale + (Scale + ExpNeg(z))) \div (2 * (Scale + ExpNeg(z)))

Logistic(z) == IF z >= 0 THEN LogisticPos(z) ELSE Scale - LogisticPos(0 - z)

RECURSIVE SumOver(_, _)
SumOver(f, keys) ==
    IF keys = {} THEN 0
    ELSE LET k == CHOOSE m \in keys : TRUE
         IN f[k] + SumOver(f, keys \ {k})

\* squashing: exponentiate, then normalize the row
Softmax(a) ==
    LET e == [c \in DOMAIN a |-> Exp(a[c])]
        total == SumOver(e, DOMAIN e)
    IN [c \in DOMAIN a |-> (2 * e[c] * Scale + total) \div (2 * total)]

\* the category with the maximum probability, the lowest index among ties
ArgMax(a) ==
    CHOOSE c \in DOMAIN a :
        /\ \A d \in DOMAIN a : a[d] <= a[c]
        /\ \A d \in DOMAIN a : d < c => a[d] < a[c]

\* ==========================================================================
\* REFERENCE MODEL (sklearn MLPClassifier, as homebrewify reads and describes it)
\* ==========================================================================

\* weights of the reference models, in -2 .. 2; seed 0 is the all-zero model
RefCoef(seed, lay, i, j) == ((seed * (1 + i + 2 * j + 3 * lay) + 2) % 5) - 2

RefIntercept(seed, lay, j) == ((seed * (2 + j + lay) + 2) % 5) - 2

\* number of units feeding reference layer lay, and number of units of that layer
FanIn(lw, lay) == IF lay = 0 THEN NUM_FEATURES ELSE lw[lay]

FanOut(lw, lay) == IF lay < Len(lw) THEN lw[lay + 1] ELSE 1

\* coefs_[lay] has shape (fan-in, fan-out); intercepts_[lay] has shape (fan-out,)
RefNN(seed, lw) ==
    [coefs_ |-> [lay \in 0..Len(lw) |->
                    [i \in 0..(FanIn(lw, lay) - 1) |->
                        [j \in 0..(FanOut(lw, lay) - 1) |-> RefCoef(seed, lay, i, j)]]],
     intercepts_ |-> [lay \in 0..Len(lw) |->
                        [j \in 0..(FanOut(lw, lay) - 1) |-> RefIntercept(seed, lay, j)]]]

\* the index Python's [-1] selects
Last(arr) == CHOOSE k \in DOMAIN arr : \A m \in DOMAIN arr : m <= k

\* activations of reference layer lay for the input a0 (a0 in fixed point)
RECURSIVE RefActivations(_, _, _)
RefActivations(ref, a0, lay) ==
    LET prev == IF lay = 0 THEN a0 ELSE RefActivations(ref, a0, lay - 1)
        W == ref.coefs_[lay]
        b == ref.intercepts_[lay]
    IN [j \in DOMAIN b |->
            Logistic(b[j] * Scale
                     + SumOver([i \in DOMAIN W |-> W[i][j] * prev[i]], DOMAIN W))]

\* the activation of the reference model's single output neuron
RefForward(ref, a0) == RefActivations(ref, a0, Last(ref.coefs_))[0]

\* the reference prediction: category 1 when the activation is >= 0.50
RefPredict(a) == IF a >= Scale \div 2 THEN 1 ELSE 0

\* ==========================================================================
\* ENGINE: layers, network, forward propagation
\* ==========================================================================

\* fann.Layer(index=..., columns=...): a table of empty cells
Layer(index, columns) == [j \in index |-> [c \in columns |-> NaN]]

\* fann.nnify: the network is the ordered sequence of its layers
nnify(layers) == layers

\* post-activation output of the first k layers of net for the input a0
RECURSIVE Activations(_, _, _)
Activations(net, a0, k) ==
    IF k = 0 THEN a0
    ELSE LET prev == Activations(net, a0, k - 1)
             layer == net[k]
         IN [j \in DOMAIN layer |->
                Logistic(layer[j][BIAS_INDEX] * Scale
                         + SumOver([i \in (DOMAIN layer[j]) \ {BIAS_INDEX} |->
                                        layer[j][i] * prev[i]],
                                   (DOMAIN layer[j]) \ {BIAS_INDEX}))]

\* forward propagation up to the squashing step
Forward(net, a0) == Activations(net, a0, Len(net))

\* ==========================================================================
\* homebrewify  (src/_demo/fann/util.py)
\* ==========================================================================

\* numpy's .T of a 2-D array
Transpose(m) ==
    [j \in DOMAIN m[0] |-> [i \in DOMAIN m |-> m[i][j]]]

\* position (from 0) of the value v in the list s
PosOf(s, v) == (CHOOSE k \in DOMAIN s : s[k] = v) - 1

\* layer.loc[:, col] = vec : one value per row, by position
SetColumn(layer, rows, col, vec) ==
    [j \in DOMAIN layer |-> [layer[j] EXCEPT ![col] = vec[PosOf(rows, j)]]]

\* layer.loc[:, cols] = mat : one row of mat per row of the layer, by position
SetColumns(layer, rows, cols, mat) ==
    [j \in DOMAIN layer |->
        [c \in DOMAIN layer[j] |->
            IF c \in SeqToSet(cols) THEN mat[PosOf(rows, j)][PosOf(cols, c)]
            ELSE layer[j][c]]]

\* layer.loc[row, cols] = vec : one value per column, by position
SetRow(layer, row, cols, vec) ==
    [j \in DOMAIN layer |->
        [c \in DOMAIN layer[j] |->
            IF j = row /\ c \in SeqToSet(cols) THEN vec[PosOf(cols, c)]
            ELSE layer[j][c]]]

SetCell(layer, row, col, v) == [layer EXCEPT ![row][col] = v]

NegVec(vec) == [k \in DOMAIN vec |-> 0 - vec[k]]

\* a variant of the hidden-layer body that leaves the bias column unpopulated
HiddenLayerNoBias(ref, lay, width, prev) ==
    LET curr == lrange(width)
        layer == Layer(SeqToSet(curr), {BIAS_INDEX} \cup SeqToSet(prev))
    IN SetColumns(layer, curr, prev, Transpose(ref.coefs_[lay]))

\* a variant of the hidden-layer body that forgets the transposition where the
\* coefficient matrix is square
HiddenLayerNoTranspose(ref, lay, width, prev) ==
    LET curr == lrange(width)
        layer == Layer(SeqToSet(curr), {BIAS_INDEX} \cup SeqToSet(prev))
        withBias == SetColumn(layer, curr, BIAS_INDEX, ref.intercepts_[lay])
        m == ref.coefs_[lay]
    IN SetColumns(withBias, curr, prev,
                  IF DOMAIN m = DOMAIN m[0] THEN m ELSE Transpose(m))

\* lines 86-94: the body of the hidden-layer loop
HiddenLayer(ref, lay, width, prev) ==
    LET curr == lrange(width)
        layer == Layer(SeqToSet(curr), {BIAS_INDEX} \cup SeqToSet(prev))
        withBias == SetColumn(layer, curr, BIAS_INDEX, ref.intercepts_[lay])
    IN SetColumns(withBias, curr, prev, Transpose(ref.coefs_[lay]))

\* a variant of the output layer whose neuron 0 copies neuron 1's incoming weights
OutputLayerWeightsNotNegated(ref, K, prev) ==
    LET last == Last(ref.coefs_)
        layer == Layer(0..(K - 1), {BIAS_INDEX} \cup SeqToSet(prev))
        b0 == SetCell(layer, 0, BIAS_INDEX, 0 - ref.intercepts_[last][0])
        b1 == SetCell(b0, 1, BIAS_INDEX, ref.intercepts_[last][0])
        w0 == SetRow(b1, 0, prev, Transpose(ref.coefs_[last])[0])
    IN SetRow(w0, 1, prev, Transpose(ref.coefs_[last])[0])

\* a variant of the output layer whose neuron 0 copies neuron 1's bias
OutputLayerBiasNotNegated(ref, K, prev) ==
    LET last == Last(ref.coefs_)
        layer == Layer(0..(K - 1), {BIAS_INDEX} \cup SeqToSet(prev))
        b0 == SetCell(layer, 0, BIAS_INDEX, ref.intercepts_[last][0])
        b1 == SetCell(b0, 1, BIAS_INDEX, ref.intercepts_[last][0])
        w0 == SetRow(b1, 0, prev, NegVec(Transpose(ref.coefs_[last])[0]))
    IN SetRow(w0, 1, prev, Transpose(ref.coefs_[last])[0])

\* lines 160-166: the output layer, neuron 0 the negation of neuron 1
OutputLayer(ref, K, prev) ==
    LET last == Last(ref.coefs_)
        layer == Layer(0..(K - 1), {BIAS_INDEX} \cup SeqToSet(prev))
        b0 == SetCell(layer, 0, BIAS_INDEX, 0 - ref.intercepts_[last][0])
        b1 == SetCell(b0, 1, BIAS_INDEX, ref.intercepts_[last][0])
        w0 == SetRow(b1, 0, prev, NegVec(Transpose(ref.coefs_[last])[0]))
    IN SetRow(w0, 1, prev, Transpose(ref.coefs_[last])[0])

\* a variant of the guard that accepts any category count of at least 2
AtLeastBinary(K) == K >= 2

\* line 158: the guard of the binary-classification assumption
IsBinary(K) == K = 2

Widths == 1..MaxWidth

LayerWidths == UNION {[1..k -> Widths] : k \in 0..MaxDepth}

\* the input observations: NUM_FEATURES features, each -1, 0 or 1
Inputs == [0..(NUM_FEATURES - 1) -> {0 - 1, 0, 1}]

InitNN ==
    /\ NUM_CATEGORIES \in 1..MaxCategories
    /\ layer_width \in LayerWidths
    /\ \E seed \in 0..MaxSeed : ref_nn = RefNN(seed, layer_width)
    /\ pc = "hidden"
    /\ l = 0
    /\ prev_neuron_indices = lrange(NUM_FEATURES)
    /\ hidden_layers = <<>>
    /\ output_layer = EmptyDict
    /\ nn = <<>>
    /\ error = "none"
    /\ reads = {}
    /\ x = <<>>
    /\ out = <<>>
    /\ p = <<>>
    /\ y_hat = 0
    /\ ref_act = 0
    /\ ref_pred = 0

\* lines 85-98: one iteration of the hidden-layer loop
HiddenLayerStep ==
    /\ pc = "hidden"
    /\ l < Len(layer_width)
    /\ hidden_layers' = Append(hidden_layers,
                               HiddenLayer(ref_nn, l, layer_width[l + 1], prev_neuron_indices))
    /\ reads' = reads \cup {l}
    /\ prev_neuron_indices' = lrange(layer_width[l + 1])
    /\ l' = l + 1
    /\ UNCHANGED <<NUM_CATEGORIES, layer_width, ref_nn, pc, output_layer, nn, error,
                   x, out, p, y_hat, ref_act, ref_pred, lossVars>>

\* lines 158-159: the category count is checked once the loop has finished
RaiseValueError ==
    /\ pc = "hidden"
    /\ l = Len(layer_width)
    /\ ~IsBinary(NUM_CATEGORIES)
    /\ error' = "ValueError"
    /\ pc' = "raised"
    /\ UNCHANGED <<NUM_CATEGORIES, layer_width, ref_nn, l, prev_neuron_indices,
                   hidden_layers, output_layer, nn, reads,
                   x, out, p, y_hat, ref_act, ref_pred, lossVars>>

\* lines 160-169: build the output layer and return the network
BuildOutputLayer ==
    /\ pc = "hidden"
    /\ l = Len(layer_width)
    /\ IsBinary(NUM_CATEGORIES)
    /\ output_layer' = OutputLayer(ref_nn, NUM_CATEGORIES, prev_neuron_indices)
    /\ reads' = reads \cup {Last(ref_nn.coefs_)}
    /\ nn' = nnify(Append(hidden_layers, output_layer'))
    /\ pc' = "returned"
    /\ UNCHANGED <<NUM_CATEGORIES, layer_width, ref_nn, l, prev_neuron_indices,
                   hidden_layers, error, x, out, p, y_hat, ref_act, ref_pred, lossVars>>

\* forward propagation of one observation through both models, before squashing
FProp ==
    /\ pc = "returned"
    /\ \E obs \in Inputs :
        /\ x' = obs
        /\ out' = Forward(nn, [i \in DOMAIN obs |-> obs[i] * Scale])
        /\ ref_act' = RefForward(ref_nn, [i \in DOMAIN obs |-> obs[i] * Scale])
    /\ pc' = "fprop"
    /\ UNCHANGED <<NUM_CATEGORIES, layer_width, ref_nn, l, prev_neuron_indices,
                   hidden_layers, output_layer, nn, error, reads,
                   p, y_hat, ref_pred, lossVars>>

\* the final squashing step of forward propagation
Squash ==
    /\ pc = "fprop"
    /\ p' = Softmax(out)
    /\ pc' = "squashed"
    /\ UNCHANGED <<NUM_CATEGORIES, layer_width, ref_nn, l, prev_neuron_indices,
                   hidden_layers, output_layer, nn, error, reads,
                   x, out, y_hat, ref_act, ref_pred, lossVars>>

\* both models predict a category
Predict ==
    /\ pc = "squashed"
    /\ y_hat' = ArgMax(p)
    /\ ref_pred' = RefPredict(ref_act)
    /\ pc' = "predicted"
    /\ UNCHANGED <<NUM_CATEGORIES, layer_width, ref_nn, l, prev_neuron_indices,
                   hidden_layers, output_layer, nn, error, reads,
                   x, out, p, ref_act, lossVars>>

Next == HiddenLayerStep \/ RaiseValueError \/ BuildOutputLayer \/ FProp \/ Squash \/ Predict

\* homebrewify is called; get_loss is not
Init == InitNN /\ InitLossIdle

Spec == Init /\ [][Next]_vars

\* ---- properties of homebrewify ------------------------------------------

\* homebrewify has returned a network
Returned == pc \in {"returned", "fprop", "squashed", "predicted"}

\* forward propagation has produced the outputs before squashing
Propagated == pc \in {"fprop", "squashed", "predicted"}

\* the squashing step has run
Squashed == pc \in {"squashed", "predicted"}

\* what counts as the same probability: one percent of the unit
Tolerance == Scale \div 100

\* number of hidden layers
Depth == Len(layer_width)

\* declared width of layer i (1-based) of the returned network
DeclaredWidth(i) == IF i <= Depth THEN layer_width[i] ELSE 2

\* number of units feeding layer i (1-based) of the returned network
IncomingWidth(i) == IF i = 1 THEN NUM_FEATURES ELSE layer_width[i - 1]

\* C4 as stated: after the final squashing step the probability of category 1
\* is the reference activation and the probability of category 0 its complement.
C4_SquashedOutputEqualsReference ==
    Squashed =>
        /\ Abs(p[1] - ref_act) <= Tolerance
        /\ Abs(p[0] - (Scale - ref_act)) <= Tolerance

\* C4 amended: before the final squashing step the output of neuron 1 is the
\* reference activation and the output of neuron 0 is its complement.
C4_PreSquashOutputEqualsReference ==
    Propagated =>
        /\ out[1] = ref_act
        /\ out[0] = Scale - ref_act

C4_Witness ==
    /\ Squashed
    /\ Depth >= 1
    /\ out[1] = ref_act
    /\ ref_act # Scale \div 2
    /\ Abs(p[1] - ref_act) > Tolerance

\* C5: the output layer of a returned network has exactly the neurons 0 and 1,
\* and in every column neuron 0's weight is the negation of neuron 1's.
C5_OutputNeuronsNegated ==
    Returned =>
        LET o == nn[Len(nn)]
        IN /\ DOMAIN o = {0, 1}
           /\ DOMAIN o[0] = DOMAIN o[1]
           /\ BIAS_INDEX \in DOMAIN o[0]
           /\ \A c \in DOMAIN o[0] : o[0][c] = 0 - o[1][c]

C5_Witness ==
    /\ Returned
    /\ nn[Len(nn)][1][BIAS_INDEX] # 0
    /\ \E c \in DOMAIN nn[Len(nn)][1] : c # BIAS_INDEX /\ nn[Len(nn)][1][c] # 0

C6_WitnessEmpty ==
    /\ Returned
    /\ Depth = 0

\* C7: the imported weight at (row j, column i) of hidden layer lay is
\* coefs_[lay][i][j], its bias is intercepts_[lay][j]; output neuron 1 carries the
\* reference output neuron's intercept and coefficients.
C7_LayoutPreserved ==
    Returned =>
        /\ \A lay \in 0..(Depth - 1) :
            \A j \in DOMAIN nn[lay + 1] :
                /\ nn[lay + 1][j][BIAS_INDEX] = ref_nn.intercepts_[lay][j]
                /\ \A i \in DOMAIN ref_nn.coefs_[lay] :
                       nn[lay + 1][j][i] = ref_nn.coefs_[lay][i][j]
        /\ nn[Depth + 1][1][BIAS_INDEX] = ref_nn.intercepts_[Depth][0]
        /\ \A i \in DOMAIN ref_nn.coefs_[Depth] :
               nn[Depth + 1][1][i] = ref_nn.coefs_[Depth][i][0]

C7_Witness ==
    /\ Returned
    /\ Depth >= 1
    /\ \E i, j \in DOMAIN nn[1] :
           /\ i \in DOMAIN ref_nn.coefs_[0]
           /\ j \in DOMAIN ref_nn.coefs_[0]
           /\ ref_nn.coefs_[0][i][j] # ref_nn.coefs_[0][j][i]

\* C8: the category predicted from the imported network equals the reference
\* model's prediction for every observation, also when the reference activation
\* is exactly 0.50.
C8_SamePrediction ==
    pc = "predicted" => y_hat = ref_pred

\* away from an activation of exactly 0.50 the two predictions agree
C8_SamePredictionAwayFromTie ==
    (pc = "predicted" /\ ref_act # Scale \div 2) => y_hat = ref_pred

\* the reference output neuron's pre-activation for the observation x
RefOutputPreActivation ==
    LET a0 == [i \in DOMAIN x |-> x[i] * Scale]
        prev == IF Depth = 0 THEN a0 ELSE RefActivations(ref_nn, a0, Depth - 1)
        W == ref_nn.coefs_[Depth]
    IN ref_nn.intercepts_[Depth][0] * Scale
       + SumOver([i \in DOMAIN W |-> W[i][0] * prev[i]], DOMAIN W)

\* an activation of exactly 0.50 arises in the model only from a pre-activation of 0
TieOnlyAtZero ==
    (Propagated /\ ref_act = Scale \div 2) => RefOutputPreActivation = 0

\* C9 as stated: with a category count other than 2 homebrewify raises a
\* ValueError, and at that moment no hidden layer has been constructed and no
\* reference weight has been read.
C9_FailsBeforeAnyComputation ==
    (NUM_CATEGORIES # 2) =>
        /\ pc \in {"hidden", "raised"}
        /\ nn = <<>>
        /\ (pc = "raised" =>
                /\ error = "ValueError"
                /\ hidden_layers = <<>>
                /\ reads = {})

\* C9 amended: with a category count other than 2 homebrewify raises a ValueError
\* and returns no network; the error is raised after every hidden layer has been
\* built from the reference weights and before the output layer is constructed
\* or any output weight is read.
C9_FailsBeforeOutputLayer ==
    (NUM_CATEGORIES # 2) =>
        /\ pc \in {"hidden", "raised"}
        /\ nn = <<>>
        /\ output_layer = EmptyDict
        /\ Depth \notin reads
        /\ (pc = "raised" =>
                /\ error = "ValueError"
                /\ Len(hidden_layers) = Depth
                /\ reads = 0..(Depth - 1))

C9_Witness ==
    /\ NUM_CATEGORIES # 2
    /\ pc = "raised"
    /\ error = "ValueError"
    /\ Len(hidden_layers) = 2
    /\ reads = {0, 1}

NextLoss == SelectTrueLabel \/ GetLL \/ GetLoss

\* get_loss is called; homebrewify is not
InitL == InitLoss /\ InitNNIdle

SpecLoss == InitL /\ [][NextLoss]_vars

====
